---- MODULE Spec2Model ----
(***************************************************************************)
(* The generated rustdoc artifacts of the martian crate:                   *)
(*   - doc/implementors/serde/ser/trait.Serialize.js, the script that      *)
(*     builds the table of Serialize implementors and hands it to the page *)
(*     (window.register_implementors, or window.pending_implementors);     *)
(*   - the sidebar index of martian::mro, one call of initSidebarItems;    *)
(*   - the rules the doc comments of martian::mro state for the traits     *)
(*     AsMartianPrimaryType / AsMartianBlanketType and for MroField.       *)
(***************************************************************************)
EXTENDS Integers, Sequences, FiniteSets, TLC

VARIABLES
    window,        \* the page's global object: property name -> value
    implementors,  \* the IIFE's local `var implementors` (Undefined outside a run)
    pc,            \* position of the running script: "idle" or the line to execute
    execs,         \* number of executions of the script started so far
    handoffs,      \* observation: every call of register_implementors / write of pending_implementors
    sidebar,       \* the argument initSidebarItems received (Undefined before the call)
    stage,         \* the stage definition being expanded (its mro lines)
    cursor,        \* number of lines of `stage` already expanded
    fields,        \* the MroFields produced so far
    primaryImpl,   \* Rust type -> MartianPrimaryType, for the types implementing AsMartianPrimaryType
    blanketImpl    \* Rust type -> MartianBlanketType, for the types implementing AsMartianBlanketType

vars == <<window, implementors, pc, execs, handoffs, sidebar,
          stage, cursor, fields, primaryImpl, blanketImpl>>

docVars == <<window, implementors, pc, execs, handoffs, sidebar>>
stageVars == <<stage, cursor, fields>>
traitVars == <<primaryImpl, blanketImpl>>

----------------------------------------------------------------------------
(* Bounds *)

MaxExecutions == 3   \* executions of the implementors script in one page
MaxStageLines == 2   \* lines of a generated stage definition

----------------------------------------------------------------------------
(* JavaScript values *)

EmptyProps == [k \in {} |-> <<>>]

\* m[k] = v on a JS object's property map
Put(m, k, v) == [x \in (DOMAIN m) \cup {k} |-> IF x = k THEN v ELSE m[x]]

Undefined == [tag |-> "undefined", id |-> 0, props |-> EmptyProps]

\* the function main.js installs as window.register_implementors
RegisterFunction == [tag |-> "function", id |-> 0, props |-> EmptyProps]

\* `{}`: a fresh object, distinct from every object made before
NewObject(n) == [tag |-> "object", id |-> n, props |-> EmptyProps]

Truthy(v) == v.tag # "undefined"

WindowProps == {"register_implementors", "pending_implementors", "implementors"}

----------------------------------------------------------------------------
(* The implementors table.  An entry's `text` is the HTML of the impl      *)
(* header; it is kept as what it spells: the impl's type parameters, the   *)
(* trait, the implementing type (the class and title of its link, its      *)
(* displayed name and type arguments) and the where-clause.                *)

Serialize == <<"serde", "ser", "Serialize">>

ImplText(generics, kind, title, name, args, whereClause) ==
    [generics |-> generics, trait |-> Serialize, kind |-> kind, title |-> title,
     name |-> name, args |-> args, where |-> whereClause]

Entry(text, types) == [text |-> text, synthetic |-> FALSE, types |-> types]

impl_MartianVoid ==
    Entry(ImplText(<<>>, "struct", <<"martian", "types", "MartianVoid">>, "MartianVoid", <<>>, {}),
          <<<<"martian", "types", "MartianVoid">>>>)

\* the link's title is the re-export martian::Resource, the type's path martian::stage::Resource
impl_Resource ==
    Entry(ImplText(<<>>, "struct", <<"martian", "Resource">>, "Resource", <<>>, {}),
          <<<<"martian", "stage", "Resource">>>>)

\* mutant: impl<T> Serialize for StageDef<T>, the bound on T lost
impl_StageDef_unconditional ==
    Entry(ImplText(<<"T">>, "struct", <<"martian", "StageDef">>, "StageDef", <<"T">>, {}),
          <<<<"martian", "stage", "StageDef">>>>)

\* impl<T> Serialize for StageDef<T> where T: Serialize
impl_StageDef ==
    Entry(ImplText(<<"T">>, "struct", <<"martian", "StageDef">>, "StageDef", <<"T">>,
                   {[param |-> "T", bound |-> Serialize]}),
          <<<<"martian", "stage", "StageDef">>>>)

impl_MartianPrimaryType ==
    Entry(ImplText(<<>>, "enum", <<"martian", "mro", "MartianPrimaryType">>, "MartianPrimaryType", <<>>, {}),
          <<<<"martian", "mro", "MartianPrimaryType">>>>)

impl_MartianBlanketType ==
    Entry(ImplText(<<>>, "enum", <<"martian", "mro", "MartianBlanketType">>, "MartianBlanketType", <<>>, {}),
          <<<<"martian", "mro", "MartianBlanketType">>>>)

impl_MroField ==
    Entry(ImplText(<<>>, "struct", <<"martian", "mro", "MroField">>, "MroField", <<>>, {}),
          <<<<"martian", "mro", "MroField">>>>)

impl_Volatile ==
    Entry(ImplText(<<>>, "enum", <<"martian", "mro", "Volatile">>, "Volatile", <<>>, {}),
          <<<<"martian", "mro", "Volatile">>>>)

impl_MroUsing ==
    Entry(ImplText(<<>>, "struct", <<"martian", "mro", "MroUsing">>, "MroUsing", <<>>, {}),
          <<<<"martian", "mro", "MroUsing">>>>)

\* impl Serialize for Map<String, Value>
impl_Map ==
    Entry(ImplText(<<>>, "struct", <<"serde_json", "map", "Map">>, "Map", <<"String", "Value">>, {}),
          <<<<"serde_json", "map", "Map">>>>)

impl_Value ==
    Entry(ImplText(<<>>, "enum", <<"serde_json", "value", "Value">>, "Value", <<>>, {}),
          <<<<"serde_json", "value", "Value">>>>)

impl_Number ==
    Entry(ImplText(<<>>, "struct", <<"serde_json", "Number">>, "Number", <<>>, {}),
          <<<<"serde_json", "number", "Number">>>>)

\* mutant: MroField listed twice, MroUsing left out
implementors_martian_dup ==
    <<impl_MartianVoid, impl_Resource, impl_StageDef, impl_MartianPrimaryType,
      impl_MartianBlanketType, impl_MroField, impl_Volatile, impl_MroField>>

implementors_martian ==
    <<impl_MartianVoid, impl_Resource, impl_StageDef, impl_MartianPrimaryType,
      impl_MartianBlanketType, impl_MroField, impl_Volatile, impl_MroUsing>>

implementors_serde_json ==
    <<impl_Map, impl_Value, impl_Number>>

----------------------------------------------------------------------------
(* The sidebar index: category -> list of <<item name, doc comment>>.      *)
(* A backquote of a doc comment is written as an apostrophe.               *)

\* mutant: Volatile listed a second time, as a constant
sidebar_constant_dup ==
    <<<<"MARTIAN_TOKENS", "">>, <<"Volatile", "">>>>

sidebar_constant ==
    <<<<"MARTIAN_TOKENS", "">>>>

\* mutant: Volatile left out of the index
sidebar_enum_missing ==
    <<<<"MartianBlanketType", "Primary Data type + Arrays (which are derived from primary types)">>,
      <<"MartianPrimaryType", "Primary data types in Martian world">>>>

sidebar_enum ==
       <<<<"MartianBlanketType", "Primary Data type + Arrays (which are derived from primary types)">>,
         <<"MartianPrimaryType", "Primary data types in Martian world">>,
         <<"Volatile", "">>>>

sidebar_struct ==
       <<<<"FiletypeHeader", "The list of filetypes we list at the top of the mro A simple wrapper around a HashSet of all file extensions.">>,
         <<"InAndOut", "Input and outputs together">>,
         <<"MroField", "Each variable that is listed in the mro along with it's type form a 'MroField'. For example, the following stage: 'mro stage SORT_ITEMS(     in  int[] unsorted,     in  bool  reverse,     out int[] sorted,     src comp  \"my_stage martian sort_items\", ) ' contains 3 'MroFields' - MroField { name: unsorted, ty: MartianBlanketType::Array(MartianPrimaryType::Int)} - MroField { name: reverse, ty: MartianBlanketType::Primary(MartianPrimaryType::Bool)} - MroField { name: sorted, ty: MartianBlanketType::Array(MartianPrimaryType::Int)}">>,
         <<"MroUsing", "Stuff that comes in the 'using' section of a stage definition For example: 'mro using (     mem_gb  = 4,     threads = 16, ) '">>,
         <<"StageMro", "All the data needed to create a stage definition mro. TODO: Retain">>>>

sidebar_trait ==
       <<<<"AsMartianBlanketType", "A trait that defines how to convert this Rust type into an 'MartianBlanketType'. Not all rust types can be converted to an 'MartianBlanketType'. Not defined for - Unit, the type of () in Rust. - Unit Struct For example 'struct Unit' or 'PhantomData<T>'. It represents     a named value containing no data. Any type which implements 'AsMartianPrimaryType' also implements 'AsMartianBlanketType' It is stringly recommended not to extend any types with this trait, instead use the 'AsMartianPrimaryType' trait.">>,
         <<"AsMartianPrimaryType", "A trait that tells you how to convert a Rust data type to a basic Martian type.">>,
         <<"MartianStruct", "A trait that defines how to expand a struct into a list of 'MroField's The 'MartianStage' and 'MartianMain' traits already has independent associated types for stage/chunk inputs and outputs. If those associated types implement this trait, then we can readily generate all the mro variables with the appropriate type and put them at the right place (withing stage def or chunk def).">>,
         <<"MroDisplay", "Defines how an entity that denotes some part of the mro is displayed">>,
         <<"MroMaker", "Can be auto generated using proc macro attribute #[make_mro] on MartianMain or MartianStage implementations if the associated types implement 'MartianStruct'">>>>

SidebarItems ==
    [constant |-> sidebar_constant, enum |-> sidebar_enum,
     struct |-> sidebar_struct, trait |-> sidebar_trait]

----------------------------------------------------------------------------
(* The implementors script, one action per statement.  A script runs to    *)
(* completion: nothing else of the page runs while pc # "idle".            *)

\* mutant: `var` forgotten, the map becomes the global window.implementors
Line1_global ==
    /\ pc = "idle"
    /\ execs < MaxExecutions
    /\ execs' = execs + 1
    /\ implementors' = NewObject(execs + 1)
    /\ window' = [window EXCEPT !["implementors"] = NewObject(execs + 1)]
    /\ pc' = "line2"
    /\ UNCHANGED <<handoffs, sidebar, stageVars, traitVars>>

\* line 1: (function() {var implementors = {};
Line1 ==
    /\ pc = "idle"
    /\ execs < MaxExecutions
    /\ execs' = execs + 1
    /\ implementors' = NewObject(execs + 1)
    /\ pc' = "line2"
    /\ UNCHANGED <<window, handoffs, sidebar, stageVars, traitVars>>

\* line 2: implementors["martian"] = [...];
Line2 ==
    /\ pc = "line2"
    /\ implementors' = [implementors EXCEPT !.props = Put(@, "martian", implementors_martian)]
    /\ pc' = "line3"
    /\ UNCHANGED <<window, execs, handoffs, sidebar, stageVars, traitVars>>

\* mutant: the second list stored under the first key
Line3_wrong_key ==
    /\ pc = "line3"
    /\ implementors' = [implementors EXCEPT !.props = Put(@, "martian", implementors_serde_json)]
    /\ pc' = "line5"
    /\ UNCHANGED <<window, execs, handoffs, sidebar, stageVars, traitVars>>

\* line 3: implementors["serde_json"] = [...];
Line3 ==
    /\ pc = "line3"
    /\ implementors' = [implementors EXCEPT !.props = Put(@, "serde_json", implementors_serde_json)]
    /\ pc' = "line5"
    /\ UNCHANGED <<window, execs, handoffs, sidebar, stageVars, traitVars>>

\* line 5: if (window.register_implementors) {
Line5 ==
    /\ pc = "line5"
    /\ pc' = IF Truthy(window["register_implementors"]) THEN "line6" ELSE "line8"
    /\ UNCHANGED <<window, implementors, execs, handoffs, sidebar, stageVars, traitVars>>

\* what one hand-off leaves in the observation log
Handoff(via) ==
    [via |-> via, arg |-> implementors,
     registered |-> Truthy(window["register_implementors"])]

\* mutant: no `else`, the call falls through to the assignment
Line6_fallthrough ==
    /\ pc = "line6"
    /\ window' = [window EXCEPT !["pending_implementors"] = implementors]
    /\ handoffs' = handoffs \o <<Handoff("call"), Handoff("pending")>>
    /\ implementors' = Undefined
    /\ pc' = "idle"
    /\ UNCHANGED <<execs, sidebar, stageVars, traitVars>>

\* mutant: a pending map is extended instead of replaced
Line8_merge ==
    /\ pc = "line8"
    /\ window' = [window EXCEPT !["pending_implementors"] =
                    IF Truthy(@)
                    THEN [@ EXCEPT !.props = [k \in DOMAIN @ |-> @[k] \o implementors.props[k]]]
                    ELSE implementors]
    /\ handoffs' = Append(handoffs, Handoff("pending"))
    /\ implementors' = Undefined
    /\ pc' = "idle"
    /\ UNCHANGED <<execs, sidebar, stageVars, traitVars>>

\* line 6: window.register_implementors(implementors);   then line 10: })()
Line6 ==
    /\ pc = "line6"
    /\ handoffs' = Append(handoffs, Handoff("call"))
    /\ implementors' = Undefined
    /\ pc' = "idle"
    /\ UNCHANGED <<window, execs, sidebar, stageVars, traitVars>>

\* line 8: window.pending_implementors = implementors;   then line 10: })()
Line8 ==
    /\ pc = "line8"
    /\ window' = [window EXCEPT !["pending_implementors"] = implementors]
    /\ handoffs' = Append(handoffs, Handoff("pending"))
    /\ implementors' = Undefined
    /\ pc' = "idle"
    /\ UNCHANGED <<execs, sidebar, stageVars, traitVars>>

\* the page's own script defines window.register_implementors at some moment
DefineRegisterImplementors ==
    /\ pc = "idle"
    /\ ~Truthy(window["register_implementors"])
    /\ window' = [window EXCEPT !["register_implementors"] = RegisterFunction]
    /\ UNCHANGED <<implementors, pc, execs, handoffs, sidebar, stageVars, traitVars>>

\* the sidebar script: initSidebarItems({...});
InitSidebarItems ==
    /\ pc = "idle"
    /\ sidebar = Undefined
    /\ sidebar' = [tag |-> "object", id |-> 0, props |-> SidebarItems]
    /\ UNCHANGED <<window, implementors, pc, execs, handoffs, stageVars, traitVars>>

----------------------------------------------------------------------------
(* martian::mro as its doc comments describe it.                           *)

\* MartianBlanketType: "Primary Data type + Arrays (which are derived from primary types)"
Primary(p) == [kind |-> "Primary", of |-> p]
Array(p) == [kind |-> "Array", of |-> p]

\* the MartianPrimaryType the doc comment pairs with an mro type keyword
MartianPrimaryTypeOf(keyword) ==
    CASE keyword = "int" -> "Int"
      [] keyword = "bool" -> "Bool"

\* one line of a stage definition: `in int[] unsorted,`
MroLine(kw, base, isArray, name) ==
    [kw |-> kw, ty |-> [base |-> base, array |-> isArray], name |-> name]

\* the stage of MroField's doc comment
SORT_ITEMS ==
    <<MroLine("in", "int", TRUE, "unsorted"),
      MroLine("in", "bool", FALSE, "reverse"),
      MroLine("out", "int", TRUE, "sorted"),
      MroLine("src", "comp", FALSE, "my_stage martian sort_items")>>

\* the MroFields the doc comment says SORT_ITEMS contains
SORT_ITEMS_MroFields ==
    <<[name |-> "unsorted", ty |-> Array("Int")],
      [name |-> "reverse", ty |-> Primary("Bool")],
      [name |-> "sorted", ty |-> Array("Int")]>>

\* mutant: the `[]` of the declared type is dropped
MroFieldOf_scalar(line) ==
    [name |-> line.name, ty |-> Primary(MartianPrimaryTypeOf(line.ty.base))]

\* "Each variable that is listed in the mro along with it's type form a MroField"
MroFieldOf(line) ==
    [name |-> line.name,
     ty |-> IF line.ty.array THEN Array(MartianPrimaryTypeOf(line.ty.base))
                             ELSE Primary(MartianPrimaryTypeOf(line.ty.base))]

IsVariable(line) == line.kw \in {"in", "out"}

\* the stage definitions the expansion is run on
StageLines ==
    {MroLine(kw, base, isArray, name) :
        kw \in {"in", "out"}, base \in {"int", "bool"},
        isArray \in BOOLEAN, name \in {"unsorted", "reverse"}}
    \cup {MroLine("src", "comp", FALSE, "my_stage martian sort_items")}

Stages ==
    {SORT_ITEMS} \cup UNION {[1..n -> StageLines] : n \in 1..MaxStageLines}

\* a stage definition is handed to the expansion
BeginStage(s) ==
    /\ stage = <<>>
    /\ stage' = s
    /\ cursor' = 0
    /\ fields' = <<>>
    /\ UNCHANGED <<docVars, traitVars>>

\* the expansion takes the next line of the stage
ExpandLine ==
    /\ cursor < Len(stage)
    /\ cursor' = cursor + 1
    /\ fields' = IF IsVariable(stage[cursor + 1])
                 THEN Append(fields, MroFieldOf(stage[cursor + 1]))
                 ELSE fields
    /\ UNCHANGED <<stage, docVars, traitVars>>

Expanded == stage # <<>> /\ cursor = Len(stage)

\* Rust types: a named type, or Vec<arg>
Named(n) == [ctor |-> n, arg |-> ""]
Vec(n) == [ctor |-> "Vec", arg |-> n]

\* the types some crate may implement AsMartianPrimaryType for
PrimaryCandidates == {"i64", "bool", "UserType"}

\* "Unit, the type of () in Rust" and "Unit Struct": no conversion is defined
UnitTypes == {Named("()"), Named("PhantomData")}

RustTypes ==
    {Named(n) : n \in PrimaryCandidates} \cup {Vec(n) : n \in PrimaryCandidates}
    \cup UnitTypes

MartianPrimaryTypes == {"Int", "Bool"}

\* mutant: no blanket implementation, the primary one stands alone
ImplAsMartianPrimaryType_only(t, p) ==
    /\ Named(t) \notin DOMAIN primaryImpl
    /\ primaryImpl' = Put(primaryImpl, Named(t), p)
    /\ UNCHANGED <<blanketImpl, docVars, stageVars>>

\* impl AsMartianPrimaryType for t, converting to p; with the crate's
\* impl<T: AsMartianPrimaryType> AsMartianBlanketType for T this is also an
\* implementation of AsMartianBlanketType, converting to Primary(p)
ImplAsMartianPrimaryType(t, p) ==
    /\ Named(t) \notin DOMAIN primaryImpl
    /\ primaryImpl' = Put(primaryImpl, Named(t), p)
    /\ blanketImpl' = Put(blanketImpl, Named(t), Primary(p))
    /\ UNCHANGED <<docVars, stageVars>>

\* Vec<t> of a type converting to Primary(p) converts to Array(p)
ImplVec(t) ==
    /\ Named(t) \in DOMAIN blanketImpl
    /\ blanketImpl[Named(t)].kind = "Primary"
    /\ Vec(t) \notin DOMAIN blanketImpl
    /\ blanketImpl' = Put(blanketImpl, Vec(t), Array(blanketImpl[Named(t)].of))
    /\ UNCHANGED <<primaryImpl, docVars, stageVars>>

----------------------------------------------------------------------------
(* Specifications *)

Init ==
    /\ window = [p \in WindowProps |-> Undefined]
    /\ implementors = Undefined
    /\ pc = "idle"
    /\ execs = 0
    /\ handoffs = <<>>
    /\ sidebar = Undefined
    /\ stage = <<>>
    /\ cursor = 0
    /\ fields = <<>>
    /\ primaryImpl = EmptyProps
    /\ blanketImpl = EmptyProps

DocsNext ==
    \/ Line1 \/ Line2 \/ Line3 \/ Line5 \/ Line6 \/ Line8
    \/ DefineRegisterImplementors
    \/ InitSidebarItems

StageNext ==
    \/ \E s \in Stages : BeginStage(s)
    \/ ExpandLine

TraitNext ==
    \/ \E t \in PrimaryCandidates, p \in MartianPrimaryTypes : ImplAsMartianPrimaryType(t, p)
    \/ \E t \in PrimaryCandidates : ImplVec(t)

Next == DocsNext \/ StageNext \/ TraitNext

Spec == Init /\ [][Next]_vars

\* the generated scripts: the implementors script, the registration becoming defined, the sidebar index
SpecDocs == Init /\ [][DocsNext]_vars

\* the expansion of a stage definition into MroFields
SpecStage == Init /\ [][StageNext]_vars

\* the implementations of the two conversion traits
SpecTraits == Init /\ [][TraitNext]_vars

----------------------------------------------------------------------------
(* Properties *)

\* every implementors map that has left the script: passed to
\* register_implementors, or held by window.pending_implementors
HandedOff ==
    {handoffs[i].arg : i \in DOMAIN handoffs}
    \cup (IF Truthy(window["pending_implementors"])
          THEN {window["pending_implementors"]} ELSE {})

TypeName(path) == path[Len(path)]

\* the places <<entry, type>> of a list of implementors that name type n
Places(list, n) ==
    {p \in UNION {{<<i, j>> : j \in DOMAIN list[i].types} : i \in DOMAIN list} :
        TypeName(list[p[1]].types[p[2]]) = n}

MartianSerializers ==
    {"MartianVoid", "Resource", "StageDef", "MartianPrimaryType",
     "MartianBlanketType", "MroField", "Volatile", "MroUsing"}

\* C1: the types listed under implementors["martian"] are exactly MartianVoid,
\* Resource, StageDef, MartianPrimaryType, MartianBlanketType, MroField, Volatile
\* and MroUsing: each of the eight is listed exactly once, and no other type is.
C1_MartianImplementors ==
    \A m \in HandedOff :
        /\ "martian" \in DOMAIN m.props
        /\ \A n \in MartianSerializers : Cardinality(Places(m.props["martian"], n)) = 1
        /\ \A i \in DOMAIN m.props["martian"] :
              /\ m.props["martian"][i].types # <<>>
              /\ \A j \in DOMAIN m.props["martian"][i].types :
                    TypeName(m.props["martian"][i].types[j]) \in MartianSerializers

\* C1's case: a map with the martian list was passed to register_implementors
C1_Witness ==
    \E i \in DOMAIN handoffs :
        handoffs[i].via = "call" /\ Len(handoffs[i].arg.props["martian"]) = 8

\* C2: StageDef<T> is the only conditional martian implementor: it has the type
\* parameter T and the where-clause T: Serialize, the bound being the implemented
\* trait; each of the other seven has no type parameter and no where-clause.
C2_OnlyStageDefConditional ==
    \A m \in HandedOff :
        /\ \E i \in DOMAIN m.props["martian"] : m.props["martian"][i].text.name = "StageDef"
        /\ \A i \in DOMAIN m.props["martian"] :
              LET text == m.props["martian"][i].text IN
              IF text.name = "StageDef"
              THEN /\ text.generics = <<"T">>
                   /\ text.args = <<"T">>
                   /\ text.where = {[param |-> "T", bound |-> text.trait]}
                   /\ text.trait = <<"serde", "ser", "Serialize">>
              ELSE /\ text.generics = <<>>
                   /\ text.args = <<>>
                   /\ text.where = {}

\* C2's case: a handed-off map lists StageDef together with seven other implementors
C2_Witness ==
    \E m \in HandedOff :
        Cardinality({i \in DOMAIN m.props["martian"] :
                        m.props["martian"][i].text.name # "StageDef"}) = 7

\* execution k of the script has run to its end
Finished(k) == k < execs \/ (k = execs /\ pc = "idle")

\* the hand-offs execution k made
HandoffsOf(k) == {i \in DOMAIN handoffs : handoffs[i].arg.id = k}

\* C5: every execution of the script hands its map off exactly once: by one call
\* of register_implementors and no write of pending_implementors if
\* register_implementors was defined at that moment, by one write of
\* pending_implementors and no call otherwise; never both, never neither.
C5_HandsOffExactlyOnce ==
    /\ \A k \in 1..execs :
          IF Finished(k)
          THEN /\ Cardinality(HandoffsOf(k)) = 1
               /\ \A i \in HandoffsOf(k) :
                     /\ handoffs[i].via = (IF handoffs[i].registered THEN "call" ELSE "pending")
                     /\ DOMAIN handoffs[i].arg.props = {"martian", "serde_json"}
          ELSE HandoffsOf(k) = {}
    /\ (\A i \in DOMAIN handoffs : handoffs[i].via = "call")
          => window["pending_implementors"] = Undefined

\* C5's case: one execution has handed off by the call and another by the write
C5_Witness ==
    /\ pc = "idle"
    /\ \E i, j \in DOMAIN handoffs : handoffs[i].via = "call" /\ handoffs[j].via = "pending"

IsPending(h) == h.via = "pending"

\* C6: window.pending_implementors holds exactly the map of the most recent
\* execution that ran before register_implementors was defined (undefined when
\* there was none): a later such execution replaces the earlier map, nothing is
\* merged into it, and an execution that ran after the definition leaves it alone.
C6_PendingIsLatestUnregistered ==
    LET writes == SelectSeq(handoffs, IsPending) IN
    IF writes = <<>>
    THEN window["pending_implementors"] = Undefined
    ELSE /\ window["pending_implementors"] = writes[Len(writes)].arg
         /\ window["pending_implementors"].props["martian"] = implementors_martian
         /\ window["pending_implementors"].props["serde_json"] = implementors_serde_json
         /\ \A i \in DOMAIN handoffs :
               /\ ~handoffs[i].registered
                     => handoffs[i].arg.id <= window["pending_implementors"].id
               /\ handoffs[i].registered
                     => handoffs[i].arg.id > window["pending_implementors"].id

\* C6's case: two executions ran before the definition and one after it
C6_Witness ==
    /\ pc = "idle"
    /\ Len(SelectSeq(handoffs, IsPending)) = 2
    /\ \E i \in DOMAIN handoffs : handoffs[i].via = "call"

\* a step of the script, as opposed to a step of the rest of the page
ScriptStep == pc # "idle" \/ pc' # "idle"

\* C7: the script writes no window property but pending_implementors
\* (register_implementors is read and called, never assigned; the map is a local
\* of the function, gone when it returns, never a global), and the map it hands
\* off has exactly the keys "martian" and "serde_json".
C7_WritesOnlyPending ==
    /\ [][ScriptStep =>
            \A p \in WindowProps \ {"pending_implementors"} : window'[p] = window[p]]_vars
    /\ [](pc = "idle" => implementors = Undefined)
    /\ [](\A m \in HandedOff : DOMAIN m.props = {"martian", "serde_json"})

\* C7's case: an execution has written pending_implementors and a later one,
\* its map complete, is about to write it again
C7_Witness ==
    /\ pc = "line8"
    /\ \E i \in DOMAIN handoffs : handoffs[i].via = "pending"
    /\ DOMAIN implementors.props = {"martian", "serde_json"}

\* C8: every entry of the table, under both keys, has synthetic false and
\* exactly one path in types, and the path's first segment is the key the entry
\* is listed under.
C8_EntriesMatchTheirKey ==
    \A m \in HandedOff :
        \A k \in DOMAIN m.props :
            \A i \in DOMAIN m.props[k] :
                /\ m.props[k][i].synthetic = FALSE
                /\ Len(m.props[k][i].types) = 1
                /\ m.props[k][i].types[1][1] = k

\* C8's case: a map with entries under both keys is held by pending_implementors
C8_Witness ==
    /\ Truthy(window["pending_implementors"])
    /\ Len(window["pending_implementors"].props["martian"]) = 8
    /\ Len(window["pending_implementors"].props["serde_json"]) = 3

InMro(path) == Len(path) = 3 /\ path[1] = "martian" /\ path[2] = "mro"

\* C9: every Serialize implementor of martian::mro is an item of the sidebar
\* index under the kind the implementors table gives it, these being the enums
\* MartianPrimaryType, MartianBlanketType, Volatile and the structs MroField, MroUsing.
C9_MroImplementorsInSidebar ==
    Truthy(sidebar) =>
        \A m \in HandedOff :
            /\ {<<TypeName(m.props["martian"][i].types[1]), m.props["martian"][i].text.kind>> :
                    i \in {i \in DOMAIN m.props["martian"] : InMro(m.props["martian"][i].types[1])}}
               = {<<"MartianPrimaryType", "enum">>, <<"MartianBlanketType", "enum">>,
                  <<"Volatile", "enum">>, <<"MroField", "struct">>, <<"MroUsing", "struct">>}
            /\ \A i \in DOMAIN m.props["martian"] :
                  InMro(m.props["martian"][i].types[1]) =>
                      /\ m.props["martian"][i].text.kind \in DOMAIN sidebar.props
                      /\ \E j \in DOMAIN sidebar.props[m.props["martian"][i].text.kind] :
                            sidebar.props[m.props["martian"][i].text.kind][j][1]
                               = TypeName(m.props["martian"][i].types[1])

\* C9's case: the sidebar index was delivered and the table was handed off
C9_Witness ==
    Truthy(sidebar) /\ handoffs # <<>>

\* the places <<category, position>> of the sidebar index that list item n
Listings(items, n) ==
    {p \in UNION {{<<c, j>> : j \in DOMAIN items[c]} : c \in DOMAIN items} :
        items[p[1]][p[2]][1] = n}

\* C10: the categories of the sidebar index are exactly constant, enum, struct
\* and trait, and every item name is listed exactly once over all categories.
C10_SidebarNamesUnique ==
    Truthy(sidebar) =>
        /\ DOMAIN sidebar.props = {"constant", "enum", "struct", "trait"}
        /\ \A c \in DOMAIN sidebar.props :
              \A j \in DOMAIN sidebar.props[c] :
                  Cardinality(Listings(sidebar.props, sidebar.props[c][j][1])) = 1

\* C10's case: the index was delivered, with items in all four categories
C10_Witness ==
    /\ Truthy(sidebar)
    /\ \A c \in {"constant", "enum", "struct", "trait"} : sidebar.props[c] # <<>>

\* C3: every type that implements AsMartianPrimaryType also implements
\* AsMartianBlanketType.
C3_PrimaryImpliesBlanket ==
    \A t \in RustTypes :
        t \in DOMAIN primaryImpl => t \in DOMAIN blanketImpl

\* C3's case: every candidate type implements AsMartianPrimaryType, and a Vec of
\* one of them implements AsMartianBlanketType without implementing the former
C3_Witness ==
    /\ \A n \in PrimaryCandidates : Named(n) \in DOMAIN primaryImpl
    /\ \E n \in PrimaryCandidates :
          Vec(n) \in DOMAIN blanketImpl /\ Vec(n) \notin DOMAIN primaryImpl

\* the type a declaration `P` or `P[]` stands for
DeclaredType(ty) ==
    [kind |-> IF ty.array THEN "Array" ELSE "Primary",
     of |-> IF ty.base = "int" THEN "Int" ELSE "Bool"]

\* C4: the expansion of a stage definition has exactly one MroField per in/out
\* variable, in the order of the lines, and none for the src line; a field has
\* the variable's name and the type Array(P) for a declaration P[], Primary(P)
\* for a declaration P.  SORT_ITEMS expands to exactly 3 fields, unsorted:
\* Array(Int), reverse: Primary(Bool), sorted: Array(Int).
C4_OneFieldPerVariable ==
    Expanded =>
        LET variables == SelectSeq(stage, IsVariable) IN
        /\ Len(fields) = Len(variables)
        /\ \A i \in DOMAIN variables :
              /\ fields[i].name = variables[i].name
              /\ fields[i].ty = DeclaredType(variables[i].ty)
        /\ stage = SORT_ITEMS =>
              /\ Len(fields) = 3
              /\ fields = SORT_ITEMS_MroFields
              /\ fields[1] = [name |-> "unsorted", ty |-> [kind |-> "Array", of |-> "Int"]]
              /\ fields[2] = [name |-> "reverse", ty |-> [kind |-> "Primary", of |-> "Bool"]]
              /\ fields[3] = [name |-> "sorted", ty |-> [kind |-> "Array", of |-> "Int"]]

\* C4's case: SORT_ITEMS, with its src line, has been expanded
C4_Witness ==
    /\ Expanded
    /\ stage = SORT_ITEMS
    /\ \E i \in DOMAIN stage : stage[i].kw = "src"

====
